---- MODULE Spec2Model ----
(***************************************************************************)
(* Model of the multipath relation visualisation: the DataProcessor that   *)
(* joins tag records and relation records into nodes and links, its        *)
(* queries, the GraphRenderer's scene (rebuild, search, click highlight,    *)
(* reset), and the application around them (tenant selection, export,      *)
(* the debounced resize listener).                                         *)
(*                                                                         *)
(* JavaScript strings whose characters matter (relation ids, table names)  *)
(* are sequences of one-character strings; strings that are only compared  *)
(* for equality (tag_id, tag_name, tenant_id) are TLA+ strings.            *)
(***************************************************************************)
EXTENDS Integers, Sequences, FiniteSets, TLC

VARIABLES
    tagsFile,       \* parsed content of semantic_all_edge_tag.json
    relationsFile,  \* parsed content of semantic_dm_table_relation_def.json
    pc,             \* position of MultipathRelationVisualization.init
    tags,           \* DataProcessor.tags
    relations,      \* DataProcessor.relations
    nodes,          \* DataProcessor.nodes
    links,          \* DataProcessor.links
    colorMap,       \* DataProcessor.colorMap
    relationMap,    \* DataProcessor.relationMap
    lastCall,       \* the last operation called, its argument, how it ended
    ret,            \* what that operation returned
    g,              \* GraphRenderer.g is set (init has run)
    sceneLinks,     \* link data bound to the .link elements under this.g
    linkStroke,     \* inline stroke style of each of these links
    sceneNodes,     \* node data bound to the .node elements under this.g
    nodeOpacity,    \* inline opacity style of each of these nodes
    linkOpacity,    \* inline opacity style of each link
    linkWidth,      \* inline stroke-width style of each link
    linkStrokeOpacity, \* inline stroke-opacity style of each link
    transform,      \* zoom transform of this.g
    tooltipCount,   \* number of div.tooltip elements in the body
    simulationCount,\* number of force simulations whose timer is running
    containerText,  \* the message shown in #graph-container, if any
    svgCount,       \* number of svg elements in #graph-container
    currentData,    \* MultipathRelationVisualization.currentData
    currentTenant,  \* MultipathRelationVisualization.currentTenant
    now,            \* the time, in ms since the page was loaded
    timers,         \* the pending timeouts of the resize listener
    resizeTimeout,  \* window.resizeTimeout: id of the last timeout set
    lastResizeAt,   \* the time of the last resize event, -1 before the first
    rerenders       \* how often the resize callback ran since that event

vars == <<tagsFile, relationsFile, pc, tags, relations, nodes, links, colorMap,
          relationMap, lastCall, ret, g, sceneLinks, linkStroke, sceneNodes,
          nodeOpacity, linkOpacity, linkWidth, linkStrokeOpacity, transform,
          tooltipCount, simulationCount, containerText, svgCount, currentData,
          currentTenant, now, timers, resizeTimeout, lastResizeAt, rerenders>>

processorVars == <<tags, relations, nodes, links, colorMap, relationMap>>
rendererVars == <<g, sceneLinks, linkStroke, sceneNodes, nodeOpacity,
                  linkOpacity, linkWidth, linkStrokeOpacity, transform,
                  tooltipCount, simulationCount>>
containerVars == <<containerText, svgCount>>
appVars == <<currentData, currentTenant>>
timerVars == <<now, timers, resizeTimeout, lastResizeAt, rerenders>>

----------------------------------------------------------------------------
(* Generic helpers *)

Range(s) == {s[i] : i \in 1..Len(s)}

\* Array.prototype.includes on an array of strings
Includes(s, x) == \E i \in 1..Len(s) : s[i] = x

----------------------------------------------------------------------------
(* Strings *)

Digits == {"0", "1", "2", "3", "4", "5", "6", "7", "8", "9"}

DigitVal == "0" :> 0 @@ "1" :> 1 @@ "2" :> 2 @@ "3" :> 3 @@ "4" :> 4 @@
            "5" :> 5 @@ "6" :> 6 @@ "7" :> 7 @@ "8" :> 8 @@ "9" :> 9

\* number of leading white-space characters of s from position i
RECURSIVE SkipWhite(_, _)
SkipWhite(s, i) ==
    IF i <= Len(s) /\ s[i] = " " THEN SkipWhite(s, i + 1) ELSE i

\* value of the longest run of decimal digits of s starting at i, given the
\* value acc of the digits read so far
RECURSIVE ReadDigits(_, _, _)
ReadDigits(s, i, acc) ==
    IF i <= Len(s) /\ s[i] \in Digits
    THEN ReadDigits(s, i + 1, 10 * acc + DigitVal[s[i]])
    ELSE acc

NaN == <<>>

\* parseInt(string): leading white space is skipped, an optional sign is
\* read, then the longest prefix of decimal digits; no digit gives NaN.
\* The result is NaN (the empty tuple) or <<n>>. The radix prefix "0x" is
\* not read as such: no relation id of the inputs below carries it.
ParseInt(s) ==
    LET start == SkipWhite(s, 1)
        signed == start <= Len(s) /\ s[start] \in {"+", "-"}
        first == IF signed THEN start + 1 ELSE start
        mag == ReadDigits(s, first, 0)
    IN  IF first <= Len(s) /\ s[first] \in Digits
        THEN <<IF signed /\ s[start] = "-" THEN 0 - mag ELSE mag>>
        ELSE NaN

\* String.prototype.toString
toString(s) == s

\* position of the last "." of s, 0 when there is none
RECURSIVE LastDot(_, _)
LastDot(s, i) ==
    IF i = 0 THEN 0 ELSE IF s[i] = "." THEN i ELSE LastDot(s, i - 1)

\* a variant that keeps the qualifier
extractWholeName(fullTableName) == fullTableName

\* DataProcessor.extractTableName: the last part of fullTableName.split('.'),
\* or fullTableName when that part is empty
extractTableName(fullTableName) ==
    LET last == SubSeq(fullTableName,
                       LastDot(fullTableName, Len(fullTableName)) + 1,
                       Len(fullTableName))
    IN  IF last = <<>> THEN fullTableName ELSE last

----------------------------------------------------------------------------
(* DataProcessor: colours *)

\* the palette of assignColors
colors == <<"#FF6B6B", "#4ECDC4", "#45B7D1", "#96CEB4", "#FFEAA7",
            "#DDA0DD", "#98D8C8", "#F7DC6F", "#BB8FCE", "#85C1E9",
            "#F8C471", "#82E0AA", "#F1948A", "#85C1E9", "#D7BDE2",
            "#A9DFBF", "#F9E79F", "#D5A6BD", "#A3E4D7", "#FADBD8">>

\* [...new Set(array)]: the distinct elements in first-occurrence order
RECURSIVE UniqueFrom(_, _, _)
UniqueFrom(s, i, acc) ==
    IF i > Len(s) THEN acc
    ELSE UniqueFrom(s, i + 1,
                    IF Includes(acc, s[i]) THEN acc ELSE Append(acc, s[i]))

Unique(s) == UniqueFrom(s, 1, <<>>)

\* Map.prototype.set on a map held as a function
MapSet(m, k, v) == [x \in DOMAIN m \cup {k} |-> IF x = k THEN v ELSE m[x]]

\* Map.prototype.get: undefined for a key the map does not hold
MapGet(m, k) == IF k \in DOMAIN m THEN m[k] ELSE "undefined"

\* uniqueTags.forEach((tagName, index) => colorMap.set(tagName, ...))
RECURSIVE SetColorsFrom(_, _, _)
SetColorsFrom(cm, uniqueTags, i) ==
    IF i > Len(uniqueTags) THEN cm
    ELSE SetColorsFrom(MapSet(cm, uniqueTags[i],
                              colors[((i - 1) % Len(colors)) + 1]),
                       uniqueTags, i + 1)

\* the tag_name of every tag, in order: this.tags.map(tag => tag.tag_name)
TagNames(tgs) == [i \in 1..Len(tgs) |-> tgs[i].tag_name]

\* a variant that colours the names of the non-deleted tags only
assignColorsOfLiveTags(cm, tgs) ==
    SetColorsFrom(cm, Unique(TagNames(SelectSeq(tgs, LAMBDA t : ~t.is_deleted))), 1)

\* DataProcessor.assignColors: the colour map after the call, from the colour
\* map cm before it (index is 0-based in the code, i is index + 1)
assignColors(cm, tgs) == SetColorsFrom(cm, Unique(TagNames(tgs)), 1)

----------------------------------------------------------------------------
(* DataProcessor: nodes *)

\* position in ns of the node with this id, 0 when there is none
\* (nodeMap.has / nodeMap.get / this.nodes.find)
RECURSIVE FindNode(_, _, _)
FindNode(ns, id, i) ==
    IF i > Len(ns) THEN 0
    ELSE IF ns[i].id = id THEN i ELSE FindNode(ns, id, i + 1)

NewNode(table) == [id |-> table, name |-> table, type |-> "table",
                   relations |-> <<>>]

\* nodeMap.set(table, {...}) unless nodeMap.has(table)
EnsureNode(ns, table) ==
    IF FindNode(ns, table, 1) = 0 THEN Append(ns, NewNode(table)) ELSE ns

\* a variant that keeps one entry per relation in a node's list
PushRelationOnce(ns, table, id) ==
    LET k == FindNode(ns, table, 1)
    IN  IF id \in Range(ns[k].relations) THEN ns
        ELSE [ns EXCEPT ![k].relations = Append(@, id)]

\* nodeMap.get(table).relations.push(id)
PushRelation(ns, table, id) ==
    LET k == FindNode(ns, table, 1)
    IN  [ns EXCEPT ![k].relations = Append(@, id)]

\* the body of the forEach of buildNodes for one relation
NodeStep(ns, relation) ==
    LET srcTable == extractTableName(relation.src_table)
        dstTable == extractTableName(relation.dst_table)
        ns1 == EnsureNode(EnsureNode(ns, srcTable), dstTable)
    IN  PushRelation(PushRelation(ns1, srcTable, relation.id),
                     dstTable, relation.id)

RECURSIVE BuildNodesFrom(_, _, _)
BuildNodesFrom(ns, rels, i) ==
    IF i > Len(rels) THEN ns
    ELSE BuildNodesFrom(NodeStep(ns, rels[i]), rels, i + 1)

\* DataProcessor.buildNodes: Array.from(nodeMap.values()), in insertion order
buildNodes(rels) == BuildNodesFrom(<<>>, rels, 1)

\* the relation map after processData's relations.forEach(... set(id, relation))
RECURSIVE SetRelationsFrom(_, _, _)
SetRelationsFrom(rm, rels, i) ==
    IF i > Len(rels) THEN rm
    ELSE SetRelationsFrom(MapSet(rm, rels[i].id, rels[i]), rels, i + 1)

----------------------------------------------------------------------------
(* DataProcessor: links *)

\* the decimal digits of a natural number, as in a template string
RECURSIVE DecimalString(_)
DecimalString(n) ==
    LET d == CHOOSE c \in Digits : DigitVal[c] = n % 10
    IN  IF n < 10 THEN <<d>> ELSE Append(DecimalString(n \div 10), d)

\* `relation-${numericRelationId}`
LinkId(n) == <<"r", "e", "l", "a", "t", "i", "o", "n", "-">> \o DecimalString(n)

\* `${srcTable}-${dstTable}`
EdgeKey(srcTable, dstTable) == srcTable \o <<"-">> \o dstTable

\* reading relation_ids of a tag that has none gives undefined, and calling
\* forEach or includes on it throws a TypeError
Malformed(tag) == ~tag.has_relation_ids

\* a variant that also collects the deleted tags that list the text
RelatedTagsDeletedToo(tgs, text) ==
    SelectSeq(tgs, LAMBDA t : t.has_relation_ids /\ Includes(t.relation_ids, text))

\* this.tags.filter(t => !t.is_deleted && t.relation_ids.includes(text))
RelatedTags(tgs, text) ==
    SelectSeq(tgs, LAMBDA t : ~t.is_deleted /\ Includes(t.relation_ids, text))

\* whether that filter throws: it reads relation_ids of every non-deleted tag
RelatedTagsThrows(tgs) ==
    \E i \in 1..Len(tgs) : ~tgs[i].is_deleted /\ Malformed(tgs[i])

\* the offset of a new edge and the edge counts after it
EdgeOffset(edgeCounts, srcTable, dstTable) ==
    LET edgeKey == EdgeKey(srcTable, dstTable)
        reverseEdgeKey == EdgeKey(dstTable, srcTable)
    IN  IF edgeKey \in DOMAIN edgeCounts
        THEN [offset |-> edgeCounts[edgeKey],
              edgeCounts |-> MapSet(edgeCounts, edgeKey, edgeCounts[edgeKey] + 1)]
        ELSE IF reverseEdgeKey \in DOMAIN edgeCounts
        THEN [offset |-> edgeCounts[reverseEdgeKey],
              edgeCounts |-> MapSet(edgeCounts, reverseEdgeKey,
                                    edgeCounts[reverseEdgeKey] + 1)]
        ELSE [offset |-> 0, edgeCounts |-> MapSet(edgeCounts, edgeKey, 1)]

\* a variant that never finds a relation processed
NeverProcessed(processedRelations, numericRelationId) == FALSE

\* processedRelations.has(numericRelationId)
AlreadyProcessed(processedRelations, numericRelationId) ==
    numericRelationId \in processedRelations

\* the state of buildLinks between two iterations
LinksStart == [links |-> <<>>, processedRelations |-> {}, edgeCounts |-> <<>>,
               threw |-> FALSE]

\* the body of relationIds.forEach for one relationId of a tag
LinkStep(acc, relationId, tgs, rm, ns, cm) ==
    LET numericRelationId == ParseInt(relationId)
    IN
    IF AlreadyProcessed(acc.processedRelations, numericRelationId) THEN acc
    ELSE IF numericRelationId = NaN \/ numericRelationId[1] \notin DOMAIN rm
    THEN acc
    ELSE
    LET relation == rm[numericRelationId[1]]
        srcTable == extractTableName(relation.src_table)
        dstTable == extractTableName(relation.dst_table)
        srcNode == FindNode(ns, srcTable, 1)
        dstNode == FindNode(ns, dstTable, 1)
    IN
    IF srcNode = 0 \/ dstNode = 0 THEN acc
    ELSE
    LET counted == EdgeOffset(acc.edgeCounts, srcTable, dstTable)
        relatedTags == RelatedTags(tgs, toString(relationId))
    IN
    IF RelatedTagsThrows(tgs) \/ relatedTags = <<>>
    THEN [acc EXCEPT !.edgeCounts = counted.edgeCounts, !.threw = TRUE]
    ELSE
    LET primaryTag == relatedTags[1]
        link == [id |-> LinkId(numericRelationId[1]),
                 source |-> ns[srcNode],
                 target |-> ns[dstNode],
                 relationId |-> numericRelationId[1],
                 tagIds |-> [i \in 1..Len(relatedTags) |-> relatedTags[i].tag_id],
                 tagNames |-> [i \in 1..Len(relatedTags) |-> relatedTags[i].tag_name],
                 color |-> MapGet(cm, primaryTag.tag_name),
                 type |-> relation.type,
                 srcTable |-> relation.src_table,
                 dstTable |-> relation.dst_table,
                 offset |-> counted.offset]
    IN  [links |-> Append(acc.links, link),
         processedRelations |-> acc.processedRelations \cup {numericRelationId},
         edgeCounts |-> counted.edgeCounts,
         threw |-> FALSE]

\* tag.relation_ids.forEach from its j-th element; an exception ends it
RECURSIVE RelationIdsFrom(_, _, _, _, _, _, _)
RelationIdsFrom(acc, relationIds, j, tgs, rm, ns, cm) ==
    IF acc.threw \/ j > Len(relationIds) THEN acc
    ELSE RelationIdsFrom(LinkStep(acc, relationIds[j], tgs, rm, ns, cm),
                         relationIds, j + 1, tgs, rm, ns, cm)

\* the body of this.tags.forEach of buildLinks for one tag
TagStep(acc, tag, tgs, rm, ns, cm) ==
    IF tag.is_deleted THEN acc
    ELSE IF Malformed(tag) THEN [acc EXCEPT !.threw = TRUE]
    ELSE RelationIdsFrom(acc, tag.relation_ids, 1, tgs, rm, ns, cm)

RECURSIVE TagsFrom(_, _, _, _, _, _)
TagsFrom(acc, i, tgs, rm, ns, cm) ==
    IF acc.threw \/ i > Len(tgs) THEN acc
    ELSE TagsFrom(TagStep(acc, tgs[i], tgs, rm, ns, cm), i + 1, tgs, rm, ns, cm)

\* DataProcessor.buildLinks: the links pushed, and whether it threw
buildLinks(tgs, rm, ns, cm) == TagsFrom(LinksStart, 1, tgs, rm, ns, cm)

\* DataProcessor.processData on the fields as they are: the fields after it
\* and whether an exception left it early
processData(tgs, rels, cm, rm) ==
    LET rm1 == SetRelationsFrom(rm, rels, 1)
        cm1 == assignColors(cm, tgs)
        ns1 == buildNodes(rels)
        built == buildLinks(tgs, rm1, ns1, cm1)
    IN  [relationMap |-> rm1, colorMap |-> cm1, nodes |-> ns1,
         links |-> built.links, threw |-> built.threw]

----------------------------------------------------------------------------
(* DataProcessor: queries *)

\* a JavaScript value passed as tenantId: a string or undefined
StringArg(str) == [type |-> "string", str |-> str]
UndefinedArg == [type |-> "undefined", str |-> ""]

\* null, the value of currentTenant and currentData before they are set
Null == [type |-> "null", str |-> ""]

\* a variant that takes only undefined for "no tenant"
OnlyUndefined(tenantId) == tenantId.type = "undefined"

\* !tenantId
Falsy(tenantId) == tenantId.type = "undefined" \/ tenantId.str = ""

\* tag.tenant_id === tenantId
TenantIs(tag, tenantId) == tenantId.type = "string" /\ tag.tenant_id = tenantId.str

\* DataProcessor.getAllData
getAllData(ns, lks, cm) == [nodes |-> ns, links |-> lks, colorMap |-> cm]

\* this.tags.filter(tag => !tag.is_deleted && tag.tenant_id === tenantId)
FilteredTags(tgs, tenantId) ==
    SelectSeq(tgs, LAMBDA tag : ~tag.is_deleted /\ TenantIs(tag, tenantId))

\* the Set of parseInt(id) over the relation_ids of the given tags
RelationIdsOf(tgs) ==
    UNION {{ParseInt(tgs[i].relation_ids[j]) : j \in 1..Len(tgs[i].relation_ids)} :
              i \in 1..Len(tgs)}

\* the relations the ids map to: .map(id => relationMap.get(id)).filter(r => r)
FilteredRelations(relatedRelationIds, rm) ==
    {rm[n[1]] : n \in {m \in relatedRelationIds : m # NaN /\ m[1] \in DOMAIN rm}}

\* a variant that collects the source tables only
RelatedSourceTables(filteredRelations) ==
    {extractTableName(r.src_table) : r \in filteredRelations}

\* the Set of bare table names of these relations
RelatedTables(filteredRelations) ==
    {extractTableName(r.src_table) : r \in filteredRelations}
        \cup {extractTableName(r.dst_table) : r \in filteredRelations}

\* whether getDataByTenant throws: forEach on relation_ids of a filtered tag
\* that has none
GetDataByTenantThrows(tgs, tenantId) ==
    /\ ~Falsy(tenantId)
    /\ \E i \in 1..Len(tgs) :
          ~tgs[i].is_deleted /\ TenantIs(tgs[i], tenantId) /\ Malformed(tgs[i])

\* DataProcessor.getDataByTenant
getDataByTenant(tenantId, tgs, rm, ns, lks, cm) ==
    IF Falsy(tenantId) THEN getAllData(ns, lks, cm)
    ELSE
    LET filteredTags == FilteredTags(tgs, tenantId)
        relatedRelationIds == RelationIdsOf(filteredTags)
        filteredRelations == FilteredRelations(relatedRelationIds, rm)
        relatedTables == RelatedTables(filteredRelations)
        filteredNodes == SelectSeq(ns, LAMBDA node : node.id \in relatedTables)
        filteredLinks ==
            SelectSeq(lks, LAMBDA link : <<link.relationId>> \in relatedRelationIds)
    IN  [nodes |-> filteredNodes, links |-> filteredLinks, colorMap |-> cm]

\* UTF-16 code unit of the one-character tenant ids, the order of Array.sort
CodeUnit == "x" :> 120 @@ "y" :> 121 @@ "z" :> 122

\* the elements of a set of tenant ids in ascending order
Sorted(S) ==
    CHOOSE s \in [1..Cardinality(S) -> S] :
        /\ Range(s) = S
        /\ \A i, j \in 1..Cardinality(S) :
              i < j => CodeUnit[s[i]] < CodeUnit[s[j]]

\* DataProcessor.getAvailableTenants
getAvailableTenants(tgs) ==
    Sorted({tgs[i].tenant_id : i \in {k \in 1..Len(tgs) :
                ~tgs[k].is_deleted /\ tgs[k].tenant_id # ""}})

\* whether getTagStatistics throws: forEach on relation_ids of a counted tag
\* that has none
GetTagStatisticsThrows(tgs) ==
    \E i \in 1..Len(tgs) : ~tgs[i].is_deleted /\ Malformed(tgs[i])

\* DataProcessor.getTagStatistics: per tag name its count, colour and the set
\* of relation id strings
getTagStatistics(tgs, cm) ==
    LET counted == {i \in 1..Len(tgs) : ~tgs[i].is_deleted}
        named(n) == {i \in counted : tgs[i].tag_name = n}
    IN  [n \in {tgs[i].tag_name : i \in counted} |->
            [count |-> Cardinality(named(n)),
             color |-> MapGet(cm, n),
             relations |-> UNION {Range(tgs[i].relation_ids) : i \in named(n)}]]

\* DataProcessor.getTagDetails
getTagDetails(tagName, tgs) ==
    SelectSeq(tgs, LAMBDA tag : tag.tag_name = tagName /\ ~tag.is_deleted)

----------------------------------------------------------------------------
(* GraphRenderer: inline styles set by search, click and reset *)

HighlightStroke == "#ff6b6b"
NoStroke == "null"

\* a variant that matches deleted tags too
MatchingTagsDeletedToo(tagId, tgs) ==
    SelectSeq(tgs, LAMBDA tag : tag.tag_id = tagId)

\* the tags searchAndHighlight matches
MatchingTags(tagId, tgs) ==
    SelectSeq(tgs, LAMBDA tag : tag.tag_id = tagId /\ ~tag.is_deleted)

\* GraphRenderer.highlightEdgesByRelationIds: the inline stroke of every
\* rendered link after it
highlightEdgesByRelationIds(relationIds, scene) ==
    [i \in 1..Len(scene) |->
        IF <<scene[i].relationId>> \in relationIds THEN HighlightStroke
        ELSE NoStroke]

\* an inline style that is not set (d3's .style(name, null) removes it)
NoStyle == "null"

\* the values the renderer gives to opacity, stroke-width and stroke-opacity
FullOpacity == "1"
DimmedNodeOpacity == "0.6"
DimmedLinkOpacity == "0.3"
ResetLinkOpacity == "0.6"
DefaultWidth == "1"
HighlightWidth == "3"
DefaultStrokeOpacity == "0.8"
HighlightStrokeOpacity == "1"

\* selection.style(name, value) on every element of a selection
StyleAll(scene, value) == [i \in 1..Len(scene) |-> value]

\* highlightEdgesByRelationIds: the inline stroke-width of every link
highlightedWidths(relationIds, scene) ==
    [i \in 1..Len(scene) |->
        IF <<scene[i].relationId>> \in relationIds THEN HighlightWidth
        ELSE DefaultWidth]

\* highlightEdgesByRelationIds: the inline stroke-opacity of every link
highlightedStrokeOpacities(relationIds, scene) ==
    [i \in 1..Len(scene) |->
        IF <<scene[i].relationId>> \in relationIds THEN HighlightStrokeOpacity
        ELSE DefaultStrokeOpacity]

\* GraphRenderer.highlightNode: the opacity of every node after it
highlightNodeNodes(nodeId, sn) ==
    [i \in 1..Len(sn) |->
        IF sn[i].id = nodeId THEN FullOpacity ELSE DimmedNodeOpacity]

\* GraphRenderer.highlightNode: the opacity of every link after it
highlightNodeLinks(nodeId, sl) ==
    [k \in 1..Len(sl) |->
        IF sl[k].source.id = nodeId \/ sl[k].target.id = nodeId
        THEN FullOpacity ELSE DimmedLinkOpacity]

\* GraphRenderer.highlightLink: the opacity of every link after it
highlightLinkLinks(linkId, sl) ==
    [k \in 1..Len(sl) |->
        IF sl[k].id = linkId THEN FullOpacity ELSE DimmedLinkOpacity]

\* GraphRenderer.highlightLink: the opacity of every node after it; link is
\* the first link of that id
highlightLinkNodes(linkId, sn, sl) ==
    LET found == {k \in 1..Len(sl) : sl[k].id = linkId}
    IN  IF found = {} THEN StyleAll(sn, DimmedNodeOpacity)
        ELSE LET link == sl[CHOOSE k \in found : \A m \in found : k <= m]
             IN  [i \in 1..Len(sn) |->
                    IF sn[i].id = link.source.id \/ sn[i].id = link.target.id
                    THEN FullOpacity ELSE DimmedNodeOpacity]

----------------------------------------------------------------------------
(* Inputs: the two data files *)

MaxTags == 2

TagRecord(label, relation_ids, is_deleted) ==
    [tag_id |-> label.tag_id, tag_name |-> label.tag_name,
     tenant_id |-> label.tenant_id, has_relation_ids |-> TRUE,
     relation_ids |-> relation_ids, is_deleted |-> is_deleted]

\* a tag record without the relation_ids property
TagWithoutRelationIds(label, is_deleted) ==
    [tag_id |-> label.tag_id, tag_name |-> label.tag_name,
     tenant_id |-> label.tenant_id, has_relation_ids |-> FALSE,
     relation_ids |-> <<>>, is_deleted |-> is_deleted]

RelationRecord(id, src_table, dst_table) ==
    [id |-> id, src_table |-> src_table, dst_table |-> dst_table,
     type |-> "ONE_TO_MANY"]

Labels ==
    {[tag_id |-> "T1", tag_name |-> "a", tenant_id |-> "x"],
     [tag_id |-> "T2", tag_name |-> "b", tenant_id |-> "y"]}

MalformedLabel == [tag_id |-> "T2", tag_name |-> "b", tenant_id |-> "x"]

\* relation_ids values: ["1"], ["01", "2"], ["7", "2", "2"] and []; no
\* relation has id 7
RelationIdLists ==
    {<< <<"1">> >>,
     << <<"0", "1">>, <<"2">> >>,
     << <<"7">>, <<"2">>, <<"2">> >>,
     <<>>}

TagRecords ==
    {TagRecord(l, r, d) : l \in Labels, r \in RelationIdLists, d \in BOOLEAN}
        \cup {TagWithoutRelationIds(l, d) : l \in {MalformedLabel}, d \in BOOLEAN}

SeqsUpTo(S, n) == UNION {[1..k -> S] : k \in 0..n}

TagLists == SeqsUpTo(TagRecords, MaxTags)

\* table names: "s.a", "t.a", "s.b"
TableSA == <<"s", ".", "a">>
TableTA == <<"t", ".", "a">>
TableSB == <<"s", ".", "b">>

RelationLists ==
    {<<>>,
     <<RelationRecord(1, TableSA, TableSB)>>,
     <<RelationRecord(1, TableSA, TableSB), RelationRecord(2, TableSB, TableTA)>>}

(* Inputs that vary the relations: up to MaxRelations relations, numbered 1, 2,
   ... in file order, between the tables "s.u", "u-r" and "r-u", all referenced
   by one tag in ascending or in descending order *)

MaxRelations == 3

TableSU == <<"s", ".", "u">>
TableUR == <<"u", "-", "r">>
TableRU == <<"r", "-", "u">>

OffsetTables == {TableSU, TableUR, TableRU}

OffsetRelationLists ==
    UNION {{[i \in 1..k |-> RelationRecord(i, e[i][1], e[i][2])] :
                e \in [1..k -> OffsetTables \X OffsetTables]} :
           k \in 0..MaxRelations}

Ascending == [i \in 1..MaxRelations |-> DecimalString(i)]
Descending == [i \in 1..MaxRelations |-> DecimalString(MaxRelations + 1 - i)]

OffsetTagLists ==
    {<<TagRecord([tag_id |-> "T1", tag_name |-> "a", tenant_id |-> "x"], r, FALSE)>> :
        r \in {Ascending, Descending}}

(* Inputs that vary the endpoints: up to MaxRelations relations between the
   tables "s.a", "t.a" and "b", with ids ascending or descending in file
   order, all referenced by one tag *)

TableB == <<"b">>

NodeTables == {TableSA, TableTA, TableB}

NodeRelationLists ==
    UNION {{[i \in 1..k |-> RelationRecord(IF up THEN i ELSE k + 1 - i,
                                           e[i][1], e[i][2])] :
                e \in [1..k -> NodeTables \X NodeTables], up \in BOOLEAN} :
           k \in 0..MaxRelations}

(* Inputs of the page: the tag T1 of tenant x on relation 1, and a tag T2 of
   tenant y, deleted or not, with each of the relation_ids values, or without
   relation_ids; relations between "s.a", "s.b", "t.a" and "s.c" *)

TagX == TagRecord([tag_id |-> "T1", tag_name |-> "a", tenant_id |-> "x"],
                  << <<"1">> >>, FALSE)

TagY(relation_ids, is_deleted) ==
    TagRecord([tag_id |-> "T2", tag_name |-> "b", tenant_id |-> "y"],
              relation_ids, is_deleted)

ViewTagLists ==
    {<<TagX, TagY(r, d)>> : r \in RelationIdLists, d \in BOOLEAN}
        \cup {<<TagX, TagWithoutRelationIds(MalformedLabel, FALSE)>>}

\* the inputs of the page while it is resized: T2 references no relation, or
\* lacks relation_ids
ResizeTagLists ==
    {<<TagX, TagY(<<>>, FALSE)>>,
     <<TagX, TagWithoutRelationIds(MalformedLabel, FALSE)>>}

TableSC == <<"s", ".", "c">>

ViewRelationLists ==
    RelationLists
        \cup {<<RelationRecord(1, TableSA, TableSB),
                RelationRecord(2, TableSB, TableSC)>>}

(* Inputs that vary the tag names: up to MaxColorTags tags, each named by a
   name not used before it or, at most MaxRepeats times in a list, by the
   first or the latest name used; no tag, every odd tag or every even tag is
   deleted *)

MaxColorTags == 22
MaxRepeats == 1

NamePool == <<"a", "b", "c", "d", "e", "f", "g", "h", "i", "j", "k", "l", "m",
              "n", "o", "p", "q", "r", "s", "t", "u", "v", "w", "x", "y", "z">>

Repeats(s) == Len(s) - Cardinality(Range(s))

RECURSIVE NameLists(_)
NameLists(n) ==
    IF n = 0 THEN {<<>>}
    ELSE LET prev == NameLists(n - 1)
         IN  {Append(s, NamePool[Cardinality(Range(s)) + 1]) : s \in prev}
                \cup UNION {{Append(s, s[k]) : k \in {1, Len(s)}} :
                             s \in {t \in prev : Len(t) > 0 /\ Repeats(t) < MaxRepeats}}

DeletedPatterns == {"none", "odd", "even"}

IsDeletedAt(pattern, i) ==
    \/ pattern = "odd" /\ i % 2 = 1
    \/ pattern = "even" /\ i % 2 = 0

ColorTagLists ==
    UNION {{[i \in 1..Len(names) |->
                TagRecord([tag_id |-> "T1", tag_name |-> names[i], tenant_id |-> ""],
                          << <<"1">> >>, IsDeletedAt(pattern, i))] :
                names \in NameLists(n), pattern \in DeletedPatterns} :
           n \in 0..MaxColorTags}

ColorRelationLists == {<<RelationRecord(1, TableSA, TableSB)>>}

----------------------------------------------------------------------------
(* The application *)

\* what a call that returns nothing, or throws, leaves as its result
Void == <<>>

Call(op, arg, outcome) == [op |-> op, arg |-> arg, outcome |-> outcome]

\* new DataProcessor(), new GraphRenderer(...), and init() up to its first
\* await: showLoading has run and the resize listener is registered
Constructed ==
    /\ pc = "fetchTags"
    /\ tags = <<>>
    /\ relations = <<>>
    /\ nodes = <<>>
    /\ links = <<>>
    /\ colorMap = <<>>
    /\ relationMap = <<>>
    /\ lastCall = Call("constructor", "", "returned")
    /\ ret = Void
    /\ g = FALSE
    /\ sceneLinks = <<>>
    /\ linkStroke = <<>>
    /\ sceneNodes = <<>>
    /\ nodeOpacity = <<>>
    /\ linkOpacity = <<>>
    /\ linkWidth = <<>>
    /\ linkStrokeOpacity = <<>>
    /\ transform = "identity"
    /\ tooltipCount = 0
    /\ simulationCount = 0
    /\ containerText = "loading"
    /\ svgCount = 0
    /\ currentData = Null
    /\ currentTenant = Null
    /\ now = 0
    /\ timers = {}
    /\ resizeTimeout = 0
    /\ lastResizeAt = -1
    /\ rerenders = 0

Init ==
    /\ tagsFile \in TagLists
    /\ relationsFile \in RelationLists
    /\ Constructed

\* the same application started on the inputs that vary the relations
InitOffsets ==
    /\ tagsFile \in OffsetTagLists
    /\ relationsFile \in OffsetRelationLists
    /\ Constructed

\* the same application started on the inputs that vary the tag names
InitColors ==
    /\ tagsFile \in ColorTagLists
    /\ relationsFile \in ColorRelationLists
    /\ Constructed

\* the same application started on the inputs that vary the endpoints
InitNodes ==
    /\ tagsFile \in OffsetTagLists
    /\ relationsFile \in NodeRelationLists
    /\ Constructed

\* the same application started on the inputs of the page while it is resized
InitResize ==
    /\ tagsFile \in ResizeTagLists
    /\ relationsFile \in RelationLists
    /\ Constructed

\* the same application started on the inputs of the page
InitView ==
    /\ tagsFile \in ViewTagLists
    /\ relationsFile \in ViewRelationLists
    /\ Constructed

\* GraphRenderer.render(data): nothing when data.nodes is empty, else
\* clearGraph, init, createSimulation, createLinks, createNodes and
\* startSimulation. clearGraph drops the reference to the old simulation
\* without stopping it, and init appends a tooltip to the body.
Render(data) ==
    IF Len(data.nodes) = 0
    THEN UNCHANGED rendererVars
    ELSE /\ g' = TRUE
         /\ sceneLinks' = data.links
         /\ sceneNodes' = data.nodes
         /\ linkStroke' = StyleAll(data.links, NoStroke)
         /\ linkWidth' = StyleAll(data.links, NoStyle)
         /\ linkStrokeOpacity' = StyleAll(data.links, NoStyle)
         /\ linkOpacity' = StyleAll(data.links, NoStyle)
         /\ nodeOpacity' = StyleAll(data.nodes, NoStyle)
         /\ transform' = "identity"
         /\ tooltipCount' = tooltipCount + 1
         /\ simulationCount' = simulationCount + 1

\* what render(data) does to #graph-container: clearGraph removes every
\* child, init appends one svg
RenderContainer(data) ==
    IF Len(data.nodes) = 0
    THEN UNCHANGED containerVars
    ELSE /\ containerText' = "none"
         /\ svgCount' = 1

\* the resize callback: graphRenderer.init() and then render(data). init
\* appends an svg to the container and a tooltip to the body and points
\* this.g to the new, empty group
InitThenRender(data) ==
    IF Len(data.nodes) = 0
    THEN /\ g' = TRUE
         /\ sceneLinks' = <<>>
         /\ sceneNodes' = <<>>
         /\ linkStroke' = <<>>
         /\ linkWidth' = <<>>
         /\ linkStrokeOpacity' = <<>>
         /\ linkOpacity' = <<>>
         /\ nodeOpacity' = <<>>
         /\ transform' = "identity"
         /\ tooltipCount' = tooltipCount + 1
         /\ UNCHANGED simulationCount
    ELSE /\ g' = TRUE
         /\ sceneLinks' = data.links
         /\ sceneNodes' = data.nodes
         /\ linkStroke' = StyleAll(data.links, NoStroke)
         /\ linkWidth' = StyleAll(data.links, NoStyle)
         /\ linkStrokeOpacity' = StyleAll(data.links, NoStyle)
         /\ linkOpacity' = StyleAll(data.links, NoStyle)
         /\ nodeOpacity' = StyleAll(data.nodes, NoStyle)
         /\ transform' = "identity"
         /\ tooltipCount' = tooltipCount + 2
         /\ simulationCount' = simulationCount + 1

\* what the resize callback does to #graph-container
InitThenRenderContainer(data) ==
    IF Len(data.nodes) = 0
    THEN /\ svgCount' = svgCount + 1
         /\ UNCHANGED containerText
    ELSE /\ containerText' = "none"
         /\ svgCount' = 1

\* showError: container.html(...) replaces the content of #graph-container
ShowError ==
    /\ containerText' = "error"
    /\ svgCount' = 0

\* loadData: the tag fetch resolves; a failed response or parse throws, and
\* init catches it and shows the error
TagsResponse ==
    /\ pc = "fetchTags"
    /\ \E ok \in BOOLEAN :
          IF ok
          THEN /\ tags' = tagsFile
               /\ pc' = "fetchRelations"
               /\ UNCHANGED containerVars
          ELSE /\ pc' = "error"
               /\ ShowError
               /\ UNCHANGED tags
    /\ UNCHANGED <<tagsFile, relationsFile, relations, nodes, links, colorMap,
                   relationMap, lastCall, ret, rendererVars, appVars, timerVars>>

\* loadData: the relation fetch resolves, processData runs, and init goes on
\* to initTenantSelector, renderGraph, bindEvents and hideLoading
RelationsResponse ==
    /\ pc = "fetchRelations"
    /\ \E ok \in BOOLEAN :
          IF ~ok
          THEN /\ pc' = "error"
               /\ ShowError
               /\ UNCHANGED <<relations, nodes, links, colorMap, relationMap,
                              lastCall, ret, rendererVars, currentData>>
          ELSE LET done == processData(tags, relationsFile, colorMap, relationMap)
                   all == getAllData(done.nodes, done.links, done.colorMap)
               IN  /\ relations' = relationsFile
                   /\ relationMap' = done.relationMap
                   /\ colorMap' = done.colorMap
                   /\ nodes' = done.nodes
                   /\ links' = done.links
                   /\ lastCall' = Call("processData", "",
                                       IF done.threw THEN "threw" ELSE "returned")
                   /\ ret' = Void
                   /\ IF done.threw
                      THEN /\ pc' = "error"
                           /\ ShowError
                           /\ UNCHANGED <<rendererVars, currentData>>
                      ELSE /\ pc' = "ready"
                           /\ currentData' = [nodes |-> done.nodes,
                                              links |-> done.links,
                                              colorMap |-> done.colorMap,
                                              tags |-> tags,
                                              relations |-> relationsFile]
                           /\ Render(all)
                           /\ containerText' = "none"
                           /\ svgCount' = IF Len(all.nodes) = 0 THEN svgCount ELSE 1
    /\ UNCHANGED <<tagsFile, relationsFile, tags, currentTenant, timerVars>>

\* init has run to its end and the page is up
Started == pc = "ready"

\* a call of dataProcessor.processData() on the data loaded so far
ProcessData ==
    /\ Started
    /\ ret' = Void
    /\ LET done == processData(tags, relations, colorMap, relationMap)
       IN  /\ relationMap' = done.relationMap
           /\ colorMap' = done.colorMap
           /\ nodes' = done.nodes
           /\ links' = done.links
           /\ lastCall' = Call("processData", "",
                               IF done.threw THEN "threw" ELSE "returned")
    /\ UNCHANGED <<tagsFile, relationsFile, pc, tags, relations, rendererVars,
                   containerVars, appVars, timerVars>>

TenantArgs == {StringArg("x"), StringArg("y"), StringArg(""), UndefinedArg}

GetAllData ==
    /\ Started
    /\ lastCall' = Call("getAllData", "", "returned")
    /\ ret' = getAllData(nodes, links, colorMap)
    /\ UNCHANGED <<tagsFile, relationsFile, pc, processorVars, rendererVars,
                   containerVars, appVars, timerVars>>

\* a variant that keeps the filtered links as the links of the processor
GetDataByTenantKeepingResult(tenantId) ==
    /\ Started
    /\ ~GetDataByTenantThrows(tags, tenantId)
    /\ lastCall' = Call("getDataByTenant", tenantId, "returned")
    /\ ret' = getDataByTenant(tenantId, tags, relationMap, nodes, links, colorMap)
    /\ links' = ret'.links
    /\ UNCHANGED <<tagsFile, relationsFile, pc, tags, relations, nodes, colorMap,
                   relationMap, rendererVars, containerVars, appVars, timerVars>>

\* a call of dataProcessor.getDataByTenant(tenantId)
GetDataByTenant(tenantId) ==
    /\ Started
    /\ IF GetDataByTenantThrows(tags, tenantId)
       THEN /\ lastCall' = Call("getDataByTenant", tenantId, "threw")
            /\ ret' = Void
       ELSE /\ lastCall' = Call("getDataByTenant", tenantId, "returned")
            /\ ret' = getDataByTenant(tenantId, tags, relationMap, nodes, links,
                                      colorMap)
    /\ UNCHANGED <<tagsFile, relationsFile, pc, processorVars, rendererVars,
                   containerVars, appVars, timerVars>>

GetAvailableTenants ==
    /\ Started
    /\ lastCall' = Call("getAvailableTenants", "", "returned")
    /\ ret' = getAvailableTenants(tags)
    /\ UNCHANGED <<tagsFile, relationsFile, pc, processorVars, rendererVars,
                   containerVars, appVars, timerVars>>

GetTagStatistics ==
    /\ Started
    /\ IF GetTagStatisticsThrows(tags)
       THEN /\ lastCall' = Call("getTagStatistics", "", "threw")
            /\ ret' = Void
       ELSE /\ lastCall' = Call("getTagStatistics", "", "returned")
            /\ ret' = getTagStatistics(tags, colorMap)
    /\ UNCHANGED <<tagsFile, relationsFile, pc, processorVars, rendererVars,
                   containerVars, appVars, timerVars>>

TagNameArgs == {"a", "b"}

GetTagDetails(tagName) ==
    /\ Started
    /\ lastCall' = Call("getTagDetails", tagName, "returned")
    /\ ret' = getTagDetails(tagName, tags)
    /\ UNCHANGED <<tagsFile, relationsFile, pc, processorVars, rendererVars,
                   containerVars, appVars, timerVars>>

TagIdArgs == {"T1", "T2"}

\* GraphRenderer.searchAndHighlight, bound to the search box by bindEvents.
\* Without a match it shows the not-found popup (outcome "notFound") and
\* returns; with this.g not set, selectAll throws.
SearchAndHighlight(tagId) ==
    /\ pc = "ready"
    /\ LET matchingTags == MatchingTags(tagId, tags)
           relationIds == RelationIdsOf(matchingTags)
       IN  IF Len(matchingTags) = 0
           THEN /\ lastCall' = Call("searchAndHighlight", tagId, "notFound")
                /\ UNCHANGED rendererVars
           ELSE IF ~g
           THEN /\ lastCall' = Call("searchAndHighlight", tagId, "threw")
                /\ UNCHANGED rendererVars
           ELSE /\ lastCall' = Call("searchAndHighlight", tagId, "highlighted")
                /\ linkStroke' = highlightEdgesByRelationIds(relationIds, sceneLinks)
                /\ linkWidth' = highlightedWidths(relationIds, sceneLinks)
                /\ linkStrokeOpacity'
                      = highlightedStrokeOpacities(relationIds, sceneLinks)
                /\ linkOpacity' = StyleAll(sceneLinks, FullOpacity)
                /\ nodeOpacity' = StyleAll(sceneNodes, FullOpacity)
                /\ UNCHANGED <<g, sceneLinks, sceneNodes, transform, tooltipCount,
                               simulationCount>>
    /\ ret' = Void
    /\ UNCHANGED <<tagsFile, relationsFile, pc, processorVars, containerVars,
                   appVars, timerVars>>

MaxTooltips == 3

\* the data renderGraph passes to render:
\* this.currentTenant ? getDataByTenant(this.currentTenant) : getAllData()
renderGraphData(tenant, tgs, rm, ns, lks, cm) ==
    IF Falsy(tenant) THEN getAllData(ns, lks, cm)
    ELSE getDataByTenant(tenant, tgs, rm, ns, lks, cm)

\* the values of the options initTenantSelector puts in #tenant-select
TenantOptions == {""} \cup Range(getAvailableTenants(tags))

\* the change listener of #tenant-select: currentTenant = value || null, then
\* renderGraph()
TenantChange(value) ==
    /\ pc = "ready"
    /\ tooltipCount < MaxTooltips
    /\ LET tenant == IF value = "" THEN Null ELSE StringArg(value)
       IN  /\ currentTenant' = tenant
           /\ IF ~Falsy(tenant) /\ GetDataByTenantThrows(tags, tenant)
              THEN /\ lastCall' = Call("tenantChange", value, "threw")
                   /\ UNCHANGED <<rendererVars, containerVars>>
              ELSE LET data == renderGraphData(tenant, tags, relationMap, nodes,
                                               links, colorMap)
                   IN  /\ lastCall' = Call("tenantChange", value, "returned")
                       /\ Render(data)
                       /\ RenderContainer(data)
    /\ ret' = Void
    /\ UNCHANGED <<tagsFile, relationsFile, pc, processorVars, currentData,
                   timerVars>>

\* GraphRenderer.showAllEdges, called for an empty search text: every inline
\* style of the links and the opacity of the nodes are removed
ShowAllEdges ==
    /\ pc = "ready"
    /\ IF ~g
       THEN /\ lastCall' = Call("showAllEdges", "", "threw")
            /\ UNCHANGED rendererVars
       ELSE /\ lastCall' = Call("showAllEdges", "", "returned")
            /\ linkStroke' = StyleAll(sceneLinks, NoStroke)
            /\ linkWidth' = StyleAll(sceneLinks, NoStyle)
            /\ linkStrokeOpacity' = StyleAll(sceneLinks, NoStyle)
            /\ linkOpacity' = StyleAll(sceneLinks, NoStyle)
            /\ nodeOpacity' = StyleAll(sceneNodes, NoStyle)
            /\ UNCHANGED <<g, sceneLinks, sceneNodes, transform, tooltipCount,
                           simulationCount>>
    /\ ret' = Void
    /\ UNCHANGED <<tagsFile, relationsFile, pc, processorVars, containerVars,
                   appVars, timerVars>>

\* GraphRenderer.handleNodeClick on the i-th node: highlightNode(d.id)
HandleNodeClick(i) ==
    /\ i \in 1..Len(sceneNodes)
    /\ lastCall' = Call("highlightNode", sceneNodes[i].id, "returned")
    /\ ret' = Void
    /\ nodeOpacity' = highlightNodeNodes(sceneNodes[i].id, sceneNodes)
    /\ linkOpacity' = highlightNodeLinks(sceneNodes[i].id, sceneLinks)
    /\ UNCHANGED <<tagsFile, relationsFile, pc, processorVars, g, sceneLinks,
                   sceneNodes, linkStroke, linkWidth, linkStrokeOpacity,
                   transform, tooltipCount, simulationCount, containerVars,
                   appVars, timerVars>>

\* GraphRenderer.handleLinkClick on the k-th link: showConditionPopup(d), a
\* popup outside the scene that is not modelled, and highlightLink(d.id)
HandleLinkClick(k) ==
    /\ k \in 1..Len(sceneLinks)
    /\ lastCall' = Call("highlightLink", sceneLinks[k].id, "returned")
    /\ ret' = Void
    /\ linkOpacity' = highlightLinkLinks(sceneLinks[k].id, sceneLinks)
    /\ nodeOpacity' = highlightLinkNodes(sceneLinks[k].id, sceneNodes, sceneLinks)
    /\ UNCHANGED <<tagsFile, relationsFile, pc, processorVars, g, sceneLinks,
                   sceneNodes, linkStroke, linkWidth, linkStrokeOpacity,
                   transform, tooltipCount, simulationCount, containerVars,
                   appVars, timerVars>>

\* GraphRenderer.handleZoom: a wheel or drag gesture on the svg
HandleZoom ==
    /\ g
    /\ svgCount > 0
    /\ transform' = "zoomed"
    /\ lastCall' = Call("handleZoom", "", "returned")
    /\ ret' = Void
    /\ UNCHANGED <<tagsFile, relationsFile, pc, processorVars, g, sceneLinks,
                   sceneNodes, linkStroke, nodeOpacity, linkOpacity, linkWidth,
                   linkStrokeOpacity, tooltipCount, simulationCount,
                   containerVars, appVars, timerVars>>

\* GraphRenderer.resetView, bound to Ctrl/Cmd+R by bindEvents: the zoom
\* transform goes back to d3.zoomIdentity, then resetHighlight. With this.svg
\* not set, this.svg.transition throws.
ResetView ==
    /\ pc = "ready"
    /\ IF ~g
       THEN /\ lastCall' = Call("resetView", "", "threw")
            /\ UNCHANGED rendererVars
       ELSE /\ lastCall' = Call("resetView", "", "returned")
            /\ transform' = "identity"
            /\ nodeOpacity' = StyleAll(sceneNodes, FullOpacity)
            /\ linkOpacity' = StyleAll(sceneLinks, ResetLinkOpacity)
            /\ UNCHANGED <<g, sceneLinks, sceneNodes, linkStroke, linkWidth,
                           linkStrokeOpacity, tooltipCount, simulationCount>>
    /\ ret' = Void
    /\ UNCHANGED <<tagsFile, relationsFile, pc, processorVars, containerVars,
                   appVars, timerVars>>

\* MultipathRelationVisualization.getStatistics
getStatistics(data, tgs, rels) ==
    IF data = Null THEN Null
    ELSE [totalNodes |-> Len(data.nodes),
          totalLinks |-> Len(data.links),
          totalTags |-> Len(SelectSeq(tgs, LAMBDA tag : ~tag.is_deleted)),
          totalRelations |-> Len(rels)]

GetStatistics ==
    /\ Started
    /\ lastCall' = Call("getStatistics", "", "returned")
    /\ ret' = getStatistics(currentData, tags, relations)
    /\ UNCHANGED <<tagsFile, relationsFile, pc, processorVars, rendererVars,
                   containerVars, appVars, timerVars>>

\* MultipathRelationVisualization.exportData: the object it serialises into
\* the downloaded file
ExportData ==
    /\ Started
    /\ lastCall' = Call("exportData", "", "returned")
    /\ ret' = [nodes |-> currentData.nodes,
               links |-> currentData.links,
               tags |-> tags,
               relations |-> relations,
               statistics |-> getStatistics(currentData, tags, relations)]
    /\ UNCHANGED <<tagsFile, relationsFile, pc, processorVars, rendererVars,
                   containerVars, appVars, timerVars>>

(* The resize listener. A timeout is an id and the time it is due; the
   callback of a due timeout runs before more time passes. *)

ResizeDelay == 250
TimeStep == 50
MaxTime == 600
MaxResizeEvents == 4

\* a variant that cancels nothing
clearNoTimeout(pending, id) == pending

\* clearTimeout(id)
clearTimeout(pending, id) == {timer \in pending : timer.id # id}

\* a resize event: clearTimeout(window.resizeTimeout), then
\* window.resizeTimeout = setTimeout(..., 250)
ResizeEvent ==
    /\ resizeTimeout < MaxResizeEvents
    /\ timers' = clearTimeout(timers, resizeTimeout)
                    \cup {[id |-> resizeTimeout + 1, due |-> now + ResizeDelay]}
    /\ resizeTimeout' = resizeTimeout + 1
    /\ lastResizeAt' = now
    /\ rerenders' = 0
    /\ UNCHANGED <<tagsFile, relationsFile, pc, processorVars, lastCall, ret,
                   rendererVars, containerVars, appVars, now>>

\* the callback of a due timeout: graphRenderer.init(), then renderGraph()
ResizeTimeout ==
    /\ \E timer \in timers :
          /\ timer.due <= now
          /\ timers' = timers \ {timer}
    /\ rerenders' = rerenders + 1
    /\ LET data == renderGraphData(currentTenant, tags, relationMap, nodes,
                                   links, colorMap)
       IN  /\ InitThenRender(data)
           /\ InitThenRenderContainer(data)
    /\ UNCHANGED <<tagsFile, relationsFile, pc, processorVars, lastCall, ret,
                   appVars, now, resizeTimeout, lastResizeAt>>

\* time passes while no timeout is due
Tick ==
    /\ now + TimeStep <= MaxTime
    /\ \A timer \in timers : timer.due > now
    /\ now' = now + TimeStep
    /\ UNCHANGED <<tagsFile, relationsFile, pc, processorVars, lastCall, ret,
                   rendererVars, containerVars, appVars, timers, resizeTimeout,
                   lastResizeAt, rerenders>>

Next ==
    \/ TagsResponse
    \/ RelationsResponse
    \/ ProcessData
    \/ GetAllData
    \/ \E tenantId \in TenantArgs : GetDataByTenant(tenantId)
    \/ GetAvailableTenants
    \/ GetTagStatistics
    \/ \E tagName \in TagNameArgs : GetTagDetails(tagName)
    \/ \E tagId \in TagIdArgs : SearchAndHighlight(tagId)

Spec == Init /\ [][Next]_vars

\* loading and building only
NextBuild ==
    \/ TagsResponse
    \/ RelationsResponse
    \/ ProcessData

SpecOffsets == InitOffsets /\ [][NextBuild]_vars

SpecColors == InitColors /\ [][NextBuild]_vars

SpecNodes == InitNodes /\ [][NextBuild]_vars

\* the page in use: tenant selection, search, clicks, reset and export
NextView ==
    \/ TagsResponse
    \/ RelationsResponse
    \/ \E value \in TenantOptions : TenantChange(value)
    \/ \E tagId \in TagIdArgs : SearchAndHighlight(tagId)
    \/ ShowAllEdges
    \/ \E i \in 1..Len(sceneNodes) : HandleNodeClick(i)
    \/ \E k \in 1..Len(sceneLinks) : HandleLinkClick(k)
    \/ HandleZoom
    \/ ResetView
    \/ GetStatistics
    \/ ExportData

SpecView == InitView /\ [][NextView]_vars

\* the page while the window is resized
NextResize ==
    \/ TagsResponse
    \/ RelationsResponse
    \/ \E value \in TenantOptions : TenantChange(value)
    \/ ResizeEvent
    \/ ResizeTimeout
    \/ Tick

SpecResize == InitResize /\ [][NextResize]_vars

----------------------------------------------------------------------------
(* Properties *)

\* the tags that are not deleted, in order
LiveTags == SelectSeq(tags, LAMBDA tag : ~tag.is_deleted)

\* the relation ids a tag refers to, each reference read as parseInt reads it
ReferencedBy(tag) ==
    {n \in 0..9 : \E j \in 1..Len(tag.relation_ids) :
                      ParseInt(tag.relation_ids[j]) = <<n>>}

\* the ids of the relations of the relation dataset
PresentIds == {relations[k].id : k \in 1..Len(relations)}

\* C1: once processData has returned, the relation ids of the edges are
\* exactly the ids referenced by a non-deleted tag and present in the relation
\* dataset, and no two edges carry the same relation id.
C1_OneEdgePerResolvableRelation ==
    pc = "ready" =>
        /\ {links[i].relationId : i \in 1..Len(links)}
              = {n \in PresentIds : \E i \in 1..Len(LiveTags) : n \in ReferencedBy(LiveTags[i])}
        /\ \A i, j \in 1..Len(links) :
              links[i].relationId = links[j].relationId => i = j

\* an edge whose relation two non-deleted tags reference, one of them after a
\* reference to a relation id that is in no dataset
C1_Witness ==
    /\ pc = "ready"
    /\ \E i \in 1..Len(links), a, b \in 1..Len(tags) :
          /\ a # b
          /\ ~tags[a].is_deleted /\ ~tags[b].is_deleted
          /\ links[i].relationId \in ReferencedBy(tags[a]) \cap ReferencedBy(tags[b])
          /\ \E j \in 1..Len(tags[a].relation_ids) :
                /\ ParseInt(tags[a].relation_ids[j]) # NaN
                /\ ParseInt(tags[a].relation_ids[j])[1] \notin PresentIds
                /\ \E k \in (j + 1)..Len(tags[a].relation_ids) :
                      ParseInt(tags[a].relation_ids[k]) = <<links[i].relationId>>

\* the non-deleted tags that reference relation id n, in tag order
TagsReferencing(n) ==
    SelectSeq(tags, LAMBDA tag : ~tag.is_deleted /\ n \in ReferencedBy(tag))

\* C2: every edge built by buildLinks lists in tagNames and tagIds, in tag
\* order, exactly the non-deleted tags whose relation_ids contain the edge's
\* relation id, and that list is not empty.
C2_EdgeListsEveryReferencingTag ==
    pc = "ready" =>
        \A i \in 1..Len(links) :
            LET referencing == TagsReferencing(links[i].relationId)
            IN  /\ Len(links[i].tagNames) > 0
                /\ links[i].tagNames
                      = [k \in 1..Len(referencing) |-> referencing[k].tag_name]
                /\ links[i].tagIds
                      = [k \in 1..Len(referencing) |-> referencing[k].tag_id]

\* whether two edges join the same unordered pair of nodes
SamePair(l, m) ==
    {l.source.id, l.target.id} = {m.source.id, m.target.id}

\* C3: the offset of every edge is the number of edges created before it
\* between the same unordered pair of nodes, so the edges of a pair carry 0, 1,
\* 2, ... in creation order, whatever the table names.
C3_OffsetsCountEarlierEdgesOfPair ==
    pc = "ready" =>
        \A i \in 1..Len(links) :
            links[i].offset
                = Cardinality({j \in 1..(i - 1) : SamePair(links[j], links[i])})

\* the number of distinct tag names that occur before the first tag named as
\* tag i is: the 0-based rank of that name in first-occurrence order
NameRank(i) ==
    LET first == CHOOSE a \in 1..Len(tags) :
                    /\ tags[a].tag_name = tags[i].tag_name
                    /\ \A b \in 1..(a - 1) : tags[b].tag_name # tags[i].tag_name
    IN  Cardinality({tags[b].tag_name : b \in 1..(first - 1)})

\* the colour map holds the names of all tags, deleted or not, and gives the
\* name of rank k the palette entry k mod 20
ColorsFollowRank ==
    /\ DOMAIN colorMap = {tags[i].tag_name : i \in 1..Len(tags)}
    /\ \A i \in 1..Len(tags) :
          colorMap[tags[i].tag_name] = colors[(NameRank(i) % 20) + 1]

\* C4: after processData the k-th distinct tag_name, counted from 0 in
\* first-occurrence order over all tags, deleted ones included, has the colour
\* palette[k mod 20]; and running processData again on the same tags leaves
\* the colour map as it was.
C4_ColorsByFirstOccurrence ==
    /\ [](lastCall.op = "processData" => ColorsFollowRank)
    /\ [][lastCall.op = "processData" /\ lastCall'.op = "processData"
             /\ tags' = tags
          => colorMap' = colorMap]_vars

\* a deleted tag introduces the 21st or a later name, whose colour wraps
\* around the palette
C4_Witness ==
    /\ pc = "ready"
    /\ lastCall.op = "processData"
    /\ \E i \in 1..Len(tags) :
          /\ tags[i].is_deleted
          /\ NameRank(i) >= 20
          /\ \A b \in 1..(i - 1) : tags[b].tag_name # tags[i].tag_name
          /\ colorMap[tags[i].tag_name] = colors[1]

\* C5: no two distinct tag names have the same colour in the colour map.
C5_DistinctNamesDistinctColors ==
    \A n, m \in DOMAIN colorMap : n # m => colorMap[n] # colorMap[m]

\* the last call was getDataByTenant and it returned
ReturnedView == lastCall.op = "getDataByTenant" /\ lastCall.outcome = "returned"

\* C6: the nodes and the links getDataByTenant returns are among the nodes
\* and the links of the full model, and both endpoints of every link returned
\* are among the nodes returned, for every tenant id.
C6_TenantViewIsClosedSubset ==
    ReturnedView =>
        /\ Range(ret.nodes) \subseteq Range(nodes)
        /\ Range(ret.links) \subseteq Range(links)
        /\ \A i \in 1..Len(ret.links) :
              /\ ret.links[i].source \in Range(ret.nodes)
              /\ ret.links[i].target \in Range(ret.nodes)

\* a tenant's view that holds an edge and leaves out another one
C6_Witness ==
    /\ ReturnedView
    /\ lastCall.arg.type = "string"
    /\ lastCall.arg.str # ""
    /\ Len(ret.links) > 0
    /\ Len(ret.links) < Len(links)
    /\ Len(ret.nodes) > 0

\* C7: getDataByTenant of the empty string or of undefined returns the full
\* model: the nodes, the links and the colour map of the processor.
C7_NoTenantGivesFullModel ==
    (ReturnedView /\ lastCall.arg \in {StringArg(""), UndefinedArg}) =>
        /\ ret.nodes = nodes
        /\ ret.links = links
        /\ ret.colorMap = colorMap

\* the empty string was asked for, where a tenant's view would leave an edge out
C7_Witness ==
    /\ ReturnedView
    /\ lastCall.arg = StringArg("")
    /\ Len(ret.links) > 0
    /\ \E i \in 1..Len(tags) :
          /\ ~tags[i].is_deleted
          /\ Len(getDataByTenant(StringArg(tags[i].tenant_id), tags, relationMap,
                                 nodes, links, colorMap).links) < Len(links)

\* C8: a getDataByTenant call changes nothing of the base model (the nodes
\* with their relations lists, the links with their colours and offsets, the
\* colour map, the relation map), and every link and node it returns is the
\* link or node of that id of the full model, colour, offset and relations
\* list included.
C8_FilteringLeavesBaseModel ==
    [][lastCall'.op = "getDataByTenant" =>
          /\ nodes' = nodes
          /\ links' = links
          /\ colorMap' = colorMap
          /\ relationMap' = relationMap
          /\ lastCall'.outcome = "returned" =>
                /\ ret'.colorMap = colorMap
                /\ \A i \in 1..Len(ret'.links) : \E j \in 1..Len(links) :
                      /\ links[j].id = ret'.links[i].id
                      /\ links[j].color = ret'.links[i].color
                      /\ links[j].offset = ret'.links[i].offset
                /\ \A i \in 1..Len(ret'.nodes) : \E j \in 1..Len(nodes) :
                      /\ nodes[j].id = ret'.nodes[i].id
                      /\ nodes[j].relations = ret'.nodes[i].relations]_vars

\* a tenant's view that holds the second edge of a pair of nodes without the
\* first: it keeps the offset 1
C8_Witness ==
    /\ ReturnedView
    /\ ~Falsy(lastCall.arg)
    /\ \E i \in 1..Len(ret.links) :
          /\ ret.links[i].offset = 1
          /\ \A j \in 1..Len(ret.links) : ret.links[j].offset # 0

\* a tag record without relation_ids
HasMalformedTag == \E i \in 1..Len(tags) : Malformed(tags[i])

\* C9: processData on an empty tag list, an empty relation list or a tag
\* without relation_ids does not throw and leaves no node and no edge.
C9_EmptyOrMalformedInputLeavesEmptyModel ==
    (lastCall.op = "processData"
        /\ (tags = <<>> \/ relations = <<>> \/ HasMalformedTag)) =>
        /\ lastCall.outcome = "returned"
        /\ nodes = <<>>
        /\ links = <<>>

\* the non-deleted tags of a tenant, of a name, of a tag id
LiveOfTenant(str) == {i \in 1..Len(tags) : ~tags[i].is_deleted /\ tags[i].tenant_id = str}
LiveOfName(name) == {i \in 1..Len(tags) : ~tags[i].is_deleted /\ tags[i].tag_name = name}
LiveOfTagId(tagId) == {i \in 1..Len(tags) : ~tags[i].is_deleted /\ tags[i].tag_id = tagId}

\* C10: a deleted tag is excluded from every derived view: the links are the
\* links built from the non-deleted tags alone, getAvailableTenants lists the
\* tenants of non-deleted tags only, a tenant's view holds only relations that
\* a non-deleted tag of the tenant references, getTagStatistics counts and
\* getTagDetails returns non-deleted tags only, and searchAndHighlight finds a
\* tag id only through a non-deleted tag and highlights only what such a tag
\* references.
C10_DeletedTagsAreExcluded ==
    pc = "ready" =>
        /\ links = buildLinks(LiveTags, relationMap, nodes, colorMap).links
        /\ lastCall.op = "getAvailableTenants" =>
              Range(ret) = {tags[i].tenant_id : i \in {k \in 1..Len(tags) :
                                                          ~tags[k].is_deleted}} \ {""}
        /\ (ReturnedView /\ ~Falsy(lastCall.arg)) =>
              \A k \in 1..Len(ret.links) :
                  \E i \in LiveOfTenant(lastCall.arg.str) :
                      ret.links[k].relationId \in ReferencedBy(tags[i])
        /\ (lastCall.op = "getTagStatistics" /\ lastCall.outcome = "returned") =>
              /\ DOMAIN ret = {n \in {tags[i].tag_name : i \in 1..Len(tags)} :
                                  LiveOfName(n) # {}}
              /\ \A n \in DOMAIN ret :
                    /\ ret[n].count = Cardinality(LiveOfName(n))
                    /\ ret[n].relations
                          = UNION {Range(tags[i].relation_ids) : i \in LiveOfName(n)}
        /\ lastCall.op = "getTagDetails" =>
              /\ \A k \in 1..Len(ret) : ~ret[k].is_deleted
              /\ Len(ret) = Cardinality(LiveOfName(lastCall.arg))
        /\ lastCall.op = "searchAndHighlight" =>
              /\ lastCall.outcome = "notFound" <=> LiveOfTagId(lastCall.arg) = {}
              /\ lastCall.outcome = "highlighted" =>
                    \A k \in 1..Len(sceneLinks) :
                        linkStroke[k] = HighlightStroke =>
                            \E i \in LiveOfTagId(lastCall.arg) :
                                sceneLinks[k].relationId \in ReferencedBy(tags[i])

\* a search for the tag id of a deleted tag finds nothing, and the relation
\* that only the deleted tag references has no edge
C10_Witness ==
    /\ pc = "ready"
    /\ lastCall.op = "searchAndHighlight"
    /\ lastCall.outcome = "notFound"
    /\ Len(links) > 0
    /\ \E i \in 1..Len(tags) :
          /\ tags[i].is_deleted
          /\ tags[i].tag_id = lastCall.arg
          /\ \E n \in ReferencedBy(tags[i]) \cap PresentIds :
                \A k \in 1..Len(links) : links[k].relationId # n

\* C17: once processData has returned, the colour of every edge is the
\* colour-map entry of the tag_name of the first non-deleted tag, in tag
\* order, that references the edge's relation, and that tag is the first entry
\* of the edge's tagIds and tagNames.
C17_EdgeColourOfFirstReferencingTag ==
    pc = "ready" =>
        \A i \in 1..Len(links) :
            LET referencing == TagsReferencing(links[i].relationId)
            IN  /\ Len(referencing) > 0
                /\ referencing[1].tag_name \in DOMAIN colorMap
                /\ links[i].color = colorMap[referencing[1].tag_name]
                /\ links[i].tagIds[1] = referencing[1].tag_id
                /\ links[i].tagNames[1] = referencing[1].tag_name

\* an edge whose relation two non-deleted tags of different names and colours
\* reference, the later one in the same text as the earlier one
C17_Witness ==
    /\ pc = "ready"
    /\ \E i \in 1..Len(links), a, b \in 1..Len(tags) :
          /\ a < b
          /\ ~tags[a].is_deleted /\ ~tags[b].is_deleted
          /\ links[i].relationId \in ReferencedBy(tags[a]) \cap ReferencedBy(tags[b])
          /\ tags[a].tag_name # tags[b].tag_name
          /\ colorMap[tags[a].tag_name] # colorMap[tags[b].tag_name]
          /\ links[i].color = colorMap[tags[a].tag_name]
          /\ Len(links[i].tagNames) = 2

\* the bare name of a table name: what follows its last dot, or all of it
BareName(table) ==
    LET starts == {k \in 1..Len(table) :
                      /\ k = 1 \/ table[k - 1] = "."
                      /\ \A j \in k..Len(table) : table[j] # "."}
    IN  IF starts = {} THEN <<>>
        ELSE SubSeq(table, CHOOSE k \in starts : TRUE, Len(table))

\* the id of each of the first k relations, once for its source and once for
\* its target where that endpoint's bare name is name, in relation order
RECURSIVE EndpointIds(_, _)
EndpointIds(name, k) ==
    IF k = 0 THEN <<>>
    ELSE EndpointIds(name, k - 1)
            \o (IF BareName(relations[k].src_table) = name
                THEN <<relations[k].id>> ELSE <<>>)
            \o (IF BareName(relations[k].dst_table) = name
                THEN <<relations[k].id>> ELSE <<>>)

\* C18: once processData has returned there is exactly one node per distinct
\* bare table name among the endpoints of the relations, and the relations
\* list of each node holds the id of a relation once for every endpoint of
\* that relation whose bare name is the node's id, in relation order and
\* without deduplication.
C18_OneNodePerBareNameWithEndpointIds ==
    pc = "ready" =>
        /\ {nodes[i].id : i \in 1..Len(nodes)}
              = UNION {{BareName(relations[k].src_table),
                        BareName(relations[k].dst_table)} : k \in 1..Len(relations)}
        /\ \A i, j \in 1..Len(nodes) : nodes[i].id = nodes[j].id => i = j
        /\ \A i \in 1..Len(nodes) :
              nodes[i].relations = EndpointIds(nodes[i].id, Len(relations))

\* the node a, built from "s.a" and "t.a", with a relation from "s.a" to
\* "t.a" listed twice and another relation listed after it
C18_Witness ==
    /\ pc = "ready"
    /\ \E i \in 1..Len(nodes), k, m \in 1..Len(relations) :
          /\ nodes[i].id = <<"a">>
          /\ k < m
          /\ relations[k].src_table = TableSA /\ relations[k].dst_table = TableTA
          /\ relations[m].src_table = TableB /\ relations[m].dst_table = TableTA
          /\ relations[k].id > relations[m].id
          /\ nodes[i].relations
                = <<relations[k].id, relations[k].id, relations[m].id>>

\* a fetch of loadData failed: init caught the error before any call of
\* processData
FetchFailed == pc = "error" /\ lastCall.op = "constructor"

\* C11: while a fetch is pending nothing has been built or rendered, and once
\* a fetch has failed the container shows the error and holds no graph, not
\* even an empty svg, whatever resize events follow.
C11_NoGraphUnlessBothFetchesSucceed ==
    /\ pc \in {"fetchTags", "fetchRelations"} =>
          /\ nodes = <<>> /\ links = <<>>
          /\ sceneNodes = <<>> /\ sceneLinks = <<>>
          /\ simulationCount = 0
    /\ FetchFailed =>
          /\ containerText = "error"
          /\ svgCount = 0
          /\ sceneNodes = <<>> /\ sceneLinks = <<>>

\* whether the k-th displayed edge carries the search highlight
Highlighted(k) ==
    linkStroke[k] = HighlightStroke \/ linkWidth[k] = HighlightWidth

\* whether the k-th displayed edge looks as createLinks drew it: the inline
\* styles are unset or repeat the attributes stroke-width 1, stroke-opacity 0.8
DefaultStyled(k) ==
    /\ linkStroke[k] = NoStroke
    /\ linkWidth[k] \in {NoStyle, DefaultWidth}
    /\ linkStrokeOpacity[k] \in {NoStyle, DefaultStrokeOpacity}
    /\ linkOpacity[k] \in {NoStyle, FullOpacity}

\* C12: after searchAndHighlight(tagId), from any earlier highlight state: if
\* no non-deleted tag has that tag_id no displayed edge is highlighted and the
\* not-found message is shown; otherwise the highlighted edges are exactly the
\* displayed edges whose relation one of the matching tags references, and
\* every other edge has the default styling.
C12_SearchHighlightsExactlyTheMatches ==
    lastCall.op = "searchAndHighlight" =>
        IF LiveOfTagId(lastCall.arg) = {}
        THEN /\ lastCall.outcome = "notFound"
             /\ \A k \in 1..Len(sceneLinks) : ~Highlighted(k)
        ELSE \A k \in 1..Len(sceneLinks) :
                IF \E i \in LiveOfTagId(lastCall.arg) :
                        sceneLinks[k].relationId \in ReferencedBy(tags[i])
                THEN linkStroke[k] = HighlightStroke /\ linkWidth[k] = HighlightWidth
                ELSE DefaultStyled(k)

\* an inline opacity below 1
Dimmed(opacity) == opacity \in {DimmedNodeOpacity, DimmedLinkOpacity, ResetLinkOpacity}

\* C13: after resetView, whatever searches and clicks came before, the zoom
\* transform is the identity, no edge keeps the search highlight colour or
\* width, and no node or edge is dimmed.
C13_ResetViewClearsHighlighting ==
    lastCall.op = "resetView" /\ lastCall.outcome = "returned" =>
        /\ transform = "identity"
        /\ \A k \in 1..Len(sceneLinks) :
              /\ linkStroke[k] # HighlightStroke
              /\ linkWidth[k] # HighlightWidth
              /\ ~Dimmed(linkOpacity[k])
        /\ \A i \in 1..Len(sceneNodes) : ~Dimmed(nodeOpacity[i])

\* what getDataByTenant gives for the tenant selected last
SelectedView ==
    renderGraphData(currentTenant, tags, relationMap, nodes, links, colorMap)

\* C14: whatever tenants were selected before, the nodes and links that
\* exportData writes, and that getStatistics counts, are those of
\* getDataByTenant of the tenant selected last.
C14_ExportWritesTheSelectedView ==
    /\ lastCall.op = "exportData" =>
          /\ ret.nodes = SelectedView.nodes
          /\ ret.links = SelectedView.links
          /\ ret.statistics.totalNodes = Len(SelectedView.nodes)
          /\ ret.statistics.totalLinks = Len(SelectedView.links)
    /\ lastCall.op = "getStatistics" =>
          /\ ret.totalNodes = Len(SelectedView.nodes)
          /\ ret.totalLinks = Len(SelectedView.links)

\* C15: after a tenant offered by the selector, or the all-tenants entry, has
\* been selected, the displayed nodes and edges are exactly those of
\* getDataByTenant of that tenant, and nothing of the previous scene remains.
C15_TenantChangeRebuildsTheScene ==
    lastCall.op = "tenantChange" /\ lastCall.outcome = "returned" =>
        /\ sceneNodes = SelectedView.nodes
        /\ sceneLinks = SelectedView.links

\* the displayed edges that end at the node of the given id
AdjacentLinks(nodeId) ==
    {k \in 1..Len(sceneLinks) :
        sceneLinks[k].source.id = nodeId \/ sceneLinks[k].target.id = nodeId}

\* the displayed nodes joined to the node of the given id by a displayed edge
NeighbourNodes(nodeId) ==
    {i \in 1..Len(sceneNodes) :
        \E k \in AdjacentLinks(nodeId) :
            sceneNodes[i].id \in {sceneLinks[k].source.id, sceneLinks[k].target.id}}

\* the nodes and the edges outside the two sets all carry one opacity below 1
RestDimmed(fullNodes, fullLinks) ==
    \E low \in {DimmedNodeOpacity, DimmedLinkOpacity} :
        /\ \A i \in (1..Len(sceneNodes)) \ fullNodes : nodeOpacity[i] = low
        /\ \A k \in (1..Len(sceneLinks)) \ fullLinks : linkOpacity[k] = low

\* C16: after a click on a node, the node, its neighbour nodes and its
\* adjacent edges are at full opacity; after a click on an edge, the edge and
\* its two end nodes are; every other node and edge is dimmed to one fixed
\* low opacity.
C16_ClickHighlightsNeighbourhood ==
    /\ lastCall.op = "highlightNode" =>
          LET fullNodes == {i \in 1..Len(sceneNodes) : sceneNodes[i].id = lastCall.arg}
                              \cup NeighbourNodes(lastCall.arg)
              fullLinks == AdjacentLinks(lastCall.arg)
          IN  /\ \A i \in fullNodes : nodeOpacity[i] = FullOpacity
              /\ \A k \in fullLinks : linkOpacity[k] = FullOpacity
              /\ RestDimmed(fullNodes, fullLinks)
    /\ lastCall.op = "highlightLink" =>
          LET fullLinks == {k \in 1..Len(sceneLinks) : sceneLinks[k].id = lastCall.arg}
              fullNodes == {i \in 1..Len(sceneNodes) :
                              \E k \in fullLinks :
                                  sceneNodes[i].id \in {sceneLinks[k].source.id,
                                                        sceneLinks[k].target.id}}
          IN  /\ \A i \in fullNodes : nodeOpacity[i] = FullOpacity
              /\ \A k \in fullLinks : linkOpacity[k] = FullOpacity
              /\ RestDimmed(fullNodes, fullLinks)

\* C19: resize events are debounced to the latest one. After a resize event
\* the callback does not run before ResizeDelay ms have passed without another
\* event, so it runs between no two events of a burst; it runs once, and until
\* it has run exactly one timeout is pending, due ResizeDelay ms after the
\* last event.
C19_ResizeDebouncedToLatest ==
    lastResizeAt >= 0 =>
        /\ rerenders <= 1
        /\ rerenders = 1 => now >= lastResizeAt + ResizeDelay /\ timers = {}
        /\ rerenders = 0 =>
              timers = {[id |-> resizeTimeout, due |-> lastResizeAt + ResizeDelay]}

\* the callback has run once after a burst of three events, 50 ms apart or
\* less, the last of them 100 ms after the page was loaded
C19_Witness ==
    /\ resizeTimeout = 3
    /\ lastResizeAt = 2 * TimeStep
    /\ lastResizeAt < ResizeDelay
    /\ now >= lastResizeAt + ResizeDelay
    /\ rerenders = 1
    /\ timers = {}

\* C20: once the page is up and a scene has been built, however many times
\* render ran (after tenant changes or resizes), the container holds exactly
\* one svg, the body exactly one tooltip, exactly one force simulation is
\* ticking, and the scene carries the fresh styles of a first rendering.
C20_RebuildLeavesOneSceneOnly ==
    pc = "ready" /\ sceneNodes # <<>> =>
        /\ svgCount = 1
        /\ tooltipCount = 1
        /\ simulationCount = 1
        /\ transform = "identity"
        /\ \A k \in 1..Len(sceneLinks) : linkStroke[k] = NoStroke /\ linkOpacity[k] = NoStyle
        /\ \A i \in 1..Len(sceneNodes) : nodeOpacity[i] = NoStyle

\* C21: once processData has returned, the source and the target of every
\* edge are nodes of the node list, their ids are the bare names of the
\* src_table and the dst_table of the edge's relation, and the relations list
\* of both holds the edge's relation id.
C21_EdgesReferToNodesOfTheirRelation ==
    pc = "ready" =>
        \A i \in 1..Len(links) :
            \E k \in 1..Len(relations) :
                /\ relations[k].id = links[i].relationId
                /\ links[i].source \in Range(nodes)
                /\ links[i].target \in Range(nodes)
                /\ links[i].source.id = BareName(relations[k].src_table)
                /\ links[i].target.id = BareName(relations[k].dst_table)
                /\ links[i].relationId \in Range(links[i].source.relations)
                /\ links[i].relationId \in Range(links[i].target.relations)

\* two edges, one of them from the node a, built from "t.a", to the node b;
\* the node a lists a second relation
C21_Witness ==
    /\ pc = "ready"
    /\ Len(links) >= 2
    /\ \E i \in 1..Len(links) :
          /\ links[i].srcTable = TableTA
          /\ links[i].source.id = <<"a">>
          /\ links[i].target.id = <<"b">>
          /\ Len(links[i].source.relations) >= 2
          /\ links[i].source \in Range(nodes)

====
